---- MODULE Spec2Model ----
(***************************************************************************)
(* A model of src/connections/twitter_connection.py: the TwitterConnection *)
(* adapter, its cached OAuth1 session, the process environment             *)
(* (os.environ), the .env file written by configure(), and the HTTP        *)
(* requests each operation issues.                                         *)
(*                                                                         *)
(* Strings the code treats as opaque (keys, tokens, user names, ids) are   *)
(* modelled as strings.  A tweet's text is represented by its length, the  *)
(* only property of it the code inspects.  Every answer of the remote      *)
(* service, every line typed at the console and every outcome of a file    *)
(* write is an input, drawn from a small set.                              *)
(***************************************************************************)
EXTENDS Integers, Sequences, FiniteSets

VARIABLES
    oauth_session,  \* self._oauth_session
    environ,        \* os.environ restricted to the six TWITTER_* keys
    dotenv_exists,  \* os.path.exists('.env')
    dotenv,         \* contents of .env restricted to the six TWITTER_* keys
    op,             \* the last operation called on the adapter, with its arguments
    handler,        \* the registered function perform_action invoked ("" when none)
    result,         \* how that operation ended: what it returned or raised
    calls,          \* the network requests that operation issued, in order
    written,        \* the keys that operation wrote to .env with set_key, in order
    nconfigure      \* the number of configure() runs so far

vars ==
    <<oauth_session, environ, dotenv_exists, dotenv, op, handler, result, calls, written,
      nconfigure>>

-----------------------------------------------------------------------------
(* Bounds of the model *)

\* How many times configure() runs in one behaviour.
MaxConfigures == 1
\* How far above a limit (280 characters, 100 results) the inputs go.
MaxOver == 1
\* Longest "data" list of a timeline response.
MaxTweets == 2
\* Longest "includes.users" list of a timeline response.
MaxUsers == 2

(* Constants of the program *)

\* post_tweet: len(message) > 280
TWEET_LIMIT == 280
\* get_latest_tweets: min(count, 100)
API_LIMIT == 100
\* post_tweet: response.status_code != 201
CREATED == 201
\* the other requests: response.status_code != 200
OK == 200

-----------------------------------------------------------------------------
(* Values *)

\* os.getenv of a variable that is not set; a key that is not in .env
None == "<None>"

\* The six keys configure() writes, in the order it writes them.
KeyOrder ==
    << "TWITTER_USERNAME", "TWITTER_USER_ID", "TWITTER_CONSUMER_KEY",
       "TWITTER_CONSUMER_SECRET", "TWITTER_ACCESS_TOKEN", "TWITTER_ACCESS_TOKEN_SECRET" >>

Keys == { KeyOrder[i] : i \in 1..Len(KeyOrder) }

\* The value of self._oauth_session before a session is built.
NoSession == [id |-> 0]

\* Python's truth value of an optional string: None and "" are false.
Truthy(v) == v # None /\ v # ""

\* all([...]) over values read with os.getenv
AllTruthy(env, ks) == \A k \in ks : Truthy(env[k])

\* The user names typed at the console or passed to an action.
Usernames == {"alice", "bob"}

\* The access token the service hands out to the account that authorizes the
\* application, and the secret that goes with it.
TokenOf(username) == IF username = "alice" THEN "at-A" ELSE "at-B"

SecretOf(access_token) == IF access_token = "at-A" THEN "ats-A" ELSE "ats-B"

\* A full credential set, as a successful earlier setup leaves it.
CredentialSet(username, user_id, at) ==
    [k \in Keys |->
        CASE k = "TWITTER_USERNAME" -> username
          [] k = "TWITTER_USER_ID" -> user_id
          [] k = "TWITTER_CONSUMER_KEY" -> "ck"
          [] k = "TWITTER_CONSUMER_SECRET" -> "cs"
          [] k = "TWITTER_ACCESS_TOKEN" -> at
          [] OTHER -> SecretOf(at)]

Unset == [k \in Keys |-> None]

-----------------------------------------------------------------------------
(* The outcome of an operation *)

Return(v) == [outcome |-> "return", value |-> v]
\* msg: the parts of the exception's message, a sequence of strings
Raise(type, msg) == [outcome |-> "raise", type |-> type, msg |-> msg]

\* A response of the HTTP layer: it raised (a transport error), or it is an
\* HTTP response with a status and a decoded JSON body.
\* A JSON object is the set of its keys with the lists under "data" and
\* "includes"."users" (empty when the key is absent).
Json(keys, data, users) == [keys |-> keys, data |-> data, users |-> users]
EmptyJson == Json({}, <<>>, <<>>)
TransportError == [raised |-> TRUE, status |-> 0, body |-> EmptyJson]
Http(status, body) == [raised |-> FALSE, status |-> status, body |-> body]

Statuses == {OK, CREATED, 401}

\* What a handler makes of a response: the transport's exception propagates,
\* a status other than the expected one raises
\* Exception(f"Request returned an error: {status_code} {text}"),
\* and the expected status lets the handler go on to return `value`.
Checked(resp, expected, value) ==
    IF resp.raised THEN Raise("ConnectionError", <<"transport error">>)
    ELSE IF resp.status # expected THEN Raise("Exception", <<"Request returned an error">>)
    ELSE Return(value)

\* One request as the HTTP layer sees it: the method, the endpoint, the id in
\* its path, its argument (a parameter or a field of the JSON sent), the id of
\* the session object it was sent with, and the response it got.
Request(method, endpoint, id, arg, sess, resp) ==
    [method |-> method, endpoint |-> endpoint, id |-> id, arg |-> arg,
     sess |-> sess, resp |-> resp]

\* response.json().get("data", [])
GetData(body) == IF "data" \in body.keys THEN body.data ELSE <<>>

\* response.json().get("includes", {}).get("users", [])
GetUsers(body) == IF {"includes", "users"} \subseteq body.keys THEN body.users ELSE <<>>

-----------------------------------------------------------------------------
(* Session construction *)

\* load_dotenv(): every key of .env that is not yet in os.environ is set from
\* the file; a variable already in os.environ is left as it is (override=False).
load_dotenv(env) ==
    IF dotenv_exists
    THEN [k \in Keys |-> IF env[k] = None /\ dotenv[k] # None THEN dotenv[k] ELSE env[k]]
    ELSE env

SecretKeys ==
    {"TWITTER_CONSUMER_KEY", "TWITTER_CONSUMER_SECRET",
     "TWITTER_ACCESS_TOKEN", "TWITTER_ACCESS_TOKEN_SECRET"}

\* OAuth1Session(...): a new session object; `id` is its identity.
OAuth1Session(id, consumer_key, client_secret, resource_owner_key, resource_owner_secret) ==
    [id |-> id, consumer_key |-> consumer_key, client_secret |-> client_secret,
     resource_owner_key |-> resource_owner_key,
     resource_owner_secret |-> resource_owner_secret]

MissingCredentials == Raise("ValueError", <<"Missing required Twitter credentials in environment">>)

\* A variant of _get_oauth that ignores the cached session and builds a new one
\* on every call.
get_oauth_rebuilding(sess, env) ==
    LET loaded == load_dotenv(env) IN
    IF ~AllTruthy(loaded, SecretKeys)
    THEN [ok |-> FALSE, session |-> NoSession, environ |-> loaded]
    ELSE [ok |-> TRUE,
          session |-> OAuth1Session(sess.id + 1,
                                    loaded["TWITTER_CONSUMER_KEY"],
                                    loaded["TWITTER_CONSUMER_SECRET"],
                                    loaded["TWITTER_ACCESS_TOKEN"],
                                    loaded["TWITTER_ACCESS_TOKEN_SECRET"]),
          environ |-> loaded]

\* _get_oauth() called with self._oauth_session = sess and os.environ = env:
\* whether it returned, the session cached afterwards and os.environ afterwards.
_get_oauth(sess, env) ==
    IF sess # NoSession
    THEN [ok |-> TRUE, session |-> sess, environ |-> env]
    ELSE LET loaded == load_dotenv(env) IN
         IF ~AllTruthy(loaded, SecretKeys)
         THEN [ok |-> FALSE, session |-> NoSession, environ |-> loaded]
         ELSE [ok |-> TRUE,
               session |-> OAuth1Session(sess.id + 1,
                                         loaded["TWITTER_CONSUMER_KEY"],
                                         loaded["TWITTER_CONSUMER_SECRET"],
                                         loaded["TWITTER_ACCESS_TOKEN"],
                                         loaded["TWITTER_ACCESS_TOKEN_SECRET"]),
               environ |-> loaded]

-----------------------------------------------------------------------------
(* Responses of the remote service *)

\* The id the service knows a user name by.
IdOf(username) == IF username = "alice" THEN "1001" ELSE "1002"

\* GET /2/users/by?usernames=username: no "data", an empty "data", or the user.
LookupBodies(username) ==
    {EmptyJson, Json({"data"}, <<>>, <<>>), Json({"data"}, <<[id |-> IdOf(username)]>>, <<>>)}

LookupResponses(username) ==
    {TransportError, Http(401, EmptyJson)} \cup {Http(OK, b) : b \in LookupBodies(username)}

\* GET /2/users/:id/tweets
TweetsBodies == {EmptyJson, Json({"data"}, <<[id |-> "t1"]>>, <<>>)}
TweetsResponses == {TransportError, Http(401, EmptyJson)} \cup {Http(OK, b) : b \in TweetsBodies}

\* POST /2/tweets and POST /2/users/:id/likes
PostBodies == {Json({"data"}, <<[id |-> "t2"]>>, <<>>)}
PostResponses == {TransportError} \cup {Http(st, b) : st \in Statuses, b \in PostBodies}

-----------------------------------------------------------------------------
(* get_user_id_from_username *)

\* get_user_id_from_username(username) called with self._oauth_session = sess
\* and os.environ = env, the lookup answered by resp.
get_user_id_from_username(username, sess, env, resp) ==
    LET g == _get_oauth(sess, env)
        found == Len(GetData(resp.body)) > 0
    IN  IF ~g.ok
        THEN [result |-> MissingCredentials, session |-> g.session,
              environ |-> g.environ, calls |-> <<>>]
        ELSE [result |->
                 IF Checked(resp, OK, "").outcome = "raise" THEN Checked(resp, OK, "")
                 ELSE IF ~found THEN Raise("Exception", <<"No user found for username", username>>)
                 ELSE Return(resp.body.data[1].id),
              session |-> g.session,
              environ |-> g.environ,
              calls |-> <<Request("GET", "/2/users/by", "", username, g.session.id, resp)>>]

-----------------------------------------------------------------------------
(* The four registered actions *)

\* What one call did: how it ended, self._oauth_session and os.environ after
\* it, and the requests it issued.
Outcome(res, sess, env, reqs) ==
    [result |-> res, session |-> sess, environ |-> env, calls |-> reqs]

\* A handler ran and ended as `out`; no handler touches .env.
Effect(func, out) ==
    /\ handler' = func
    /\ result' = out.result
    /\ oauth_session' = out.session
    /\ environ' = out.environ
    /\ calls' = out.calls
    /\ written' = <<>>
    /\ UNCHANGED <<dotenv_exists, dotenv, nconfigure>>

\* A variant of min that does not cap.
min_uncapped(a, b) == a

\* Python's min(a, b)
min(a, b) == IF b < a THEN b ELSE a

\* get_latest_tweets(username, count): the lookup answered by lresp, the
\* user-tweets request by tresp.
get_latest_tweets(username, count, lresp, tresp) ==
    LET l == get_user_id_from_username(username, oauth_session, environ, lresp)
        g == _get_oauth(l.session, l.environ)
        req == Request("GET", "/2/users/:id/tweets", l.result.value,
                       min(count, API_LIMIT), g.session.id, tresp)
    IN  Effect("get_latest_tweets",
            IF l.result.outcome = "raise"
            THEN Outcome(Raise("Exception",
                               <<"Failed to get user ID for username", username>> \o l.result.msg),
                         l.session, l.environ, l.calls)
            ELSE IF ~g.ok
            THEN Outcome(MissingCredentials, g.session, g.environ, l.calls)
            ELSE Outcome(Checked(tresp, OK, GetData(tresp.body)),
                         g.session, g.environ, l.calls \o <<req>>))

TweetTooLong == Raise("ValueError", <<"Tweet exceeds 280 character limit">>)

\* A variant of post_tweet that builds the session before it checks the length.
post_tweet_checking_late(message, resp) ==
    LET g == _get_oauth(oauth_session, environ)
        req == Request("POST", "/2/tweets", "", message, g.session.id, resp)
    IN  Effect("post_tweet",
            IF ~g.ok
            THEN Outcome(MissingCredentials, g.session, g.environ, <<>>)
            ELSE IF message > TWEET_LIMIT
            THEN Outcome(TweetTooLong, g.session, g.environ, <<>>)
            ELSE Outcome(Checked(resp, CREATED, resp.body), g.session, g.environ, <<req>>))

\* A variant of post_tweet that takes status 200 for success.
post_tweet_accepting_200(message, resp) ==
    LET g == _get_oauth(oauth_session, environ)
        req == Request("POST", "/2/tweets", "", message, g.session.id, resp)
    IN  Effect("post_tweet",
            IF message > TWEET_LIMIT
            THEN Outcome(TweetTooLong, oauth_session, environ, <<>>)
            ELSE IF ~g.ok
            THEN Outcome(MissingCredentials, g.session, g.environ, <<>>)
            ELSE Outcome(Checked(resp, OK, resp.body), g.session, g.environ, <<req>>))

\* post_tweet(message): message is the length of the text.
post_tweet(message, resp) ==
    LET g == _get_oauth(oauth_session, environ)
        req == Request("POST", "/2/tweets", "", message, g.session.id, resp)
    IN  Effect("post_tweet",
            IF message > TWEET_LIMIT
            THEN Outcome(TweetTooLong, oauth_session, environ, <<>>)
            ELSE IF ~g.ok
            THEN Outcome(MissingCredentials, g.session, g.environ, <<>>)
            ELSE Outcome(Checked(resp, CREATED, resp.body), g.session, g.environ, <<req>>))

MissingUserId == Raise("ValueError", <<"TWITTER_USER_ID not found in environment variables.">>)

\* user_dict = {user['id']: {'name': ..., 'username': ...} for user in user_info}:
\* a later entry with the same id replaces an earlier one.
user_dict(user_info) ==
    [i \in {user_info[j].id : j \in DOMAIN user_info} |->
        LET last == CHOOSE j \in DOMAIN user_info :
                        /\ user_info[j].id = i
                        /\ \A k \in DOMAIN user_info : user_info[k].id = i => k <= j
        IN  [name |-> user_info[last].name, username |-> user_info[last].username]]

\* A variant of AddAuthors that looks the tweet's own id up in user_dict.
AddAuthors_by_tweet_id(tweets, ud) ==
    [t \in DOMAIN tweets |->
        IF tweets[t].id \in DOMAIN ud
        THEN [id |-> tweets[t].id, author_id |-> tweets[t].author_id,
              author_name |-> ud[tweets[t].id].name,
              author_username |-> ud[tweets[t].id].username]
        ELSE [id |-> tweets[t].id, author_id |-> tweets[t].author_id,
              author_name |-> "Unknown", author_username |-> "Unknown"]]

\* for tweet in tweets: tweet['author_name'] = ...; tweet['author_username'] = ...
AddAuthors(tweets, ud) ==
    [t \in DOMAIN tweets |->
        IF tweets[t].author_id \in DOMAIN ud
        THEN [id |-> tweets[t].id, author_id |-> tweets[t].author_id,
              author_name |-> ud[tweets[t].author_id].name,
              author_username |-> ud[tweets[t].author_id].username]
        ELSE [id |-> tweets[t].id, author_id |-> tweets[t].author_id,
              author_name |-> "Unknown", author_username |-> "Unknown"]]

\* read_timeline(count)
read_timeline(count, resp) ==
    LET user_id == environ["TWITTER_USER_ID"]
        g == _get_oauth(oauth_session, environ)
        req == Request("GET", "/2/users/:id/timelines/reverse_chronological",
                       user_id, count, g.session.id, resp)
    IN  Effect("read_timeline",
            IF ~Truthy(user_id)
            THEN Outcome(MissingUserId, oauth_session, environ, <<>>)
            ELSE IF ~g.ok
            THEN Outcome(MissingCredentials, g.session, g.environ, <<>>)
            ELSE Outcome(Checked(resp, OK,
                                 AddAuthors(GetData(resp.body), user_dict(GetUsers(resp.body)))),
                         g.session, g.environ, <<req>>))

\* like_tweet(tweet_id)
like_tweet(tweet_id, resp) ==
    LET user_id == environ["TWITTER_USER_ID"]
        g == _get_oauth(oauth_session, environ)
        req == Request("POST", "/2/users/:id/likes", user_id, tweet_id, g.session.id, resp)
    IN  Effect("like_tweet",
            IF ~Truthy(user_id)
            THEN Outcome(MissingUserId, oauth_session, environ, <<>>)
            ELSE IF ~g.ok
            THEN Outcome(MissingCredentials, g.session, g.environ, <<>>)
            ELSE Outcome(Checked(resp, OK, resp.body), g.session, g.environ, <<req>>))

-----------------------------------------------------------------------------
(* perform_action *)

\* self.actions: the registered names and the method each is bound to.
ActionNames == {"get-latest-tweets", "post-tweet", "read-timeline", "like-tweet"}

\* A variant of the registry with "get-latest-tweets" bound to read_timeline.
actions_miswired ==
    [n \in ActionNames |->
        CASE n = "get-latest-tweets" -> "read_timeline"
          [] n = "post-tweet" -> "post_tweet"
          [] n = "read-timeline" -> "read_timeline"
          [] n = "like-tweet" -> "like_tweet"]

actions ==
    [n \in ActionNames |->
        CASE n = "get-latest-tweets" -> "get_latest_tweets"
          [] n = "post-tweet" -> "post_tweet"
          [] n = "read-timeline" -> "read_timeline"
          [] n = "like-tweet" -> "like_tweet"]

\* GET /2/users/:id/timelines/reverse_chronological, as the behaviours of
\* Spec answer it: no data, a tweet whose author is in the user list, a tweet
\* whose author is not.
Tweet(id, author_id) == [id |-> id, author_id |-> author_id]
User(id, tag) ==
    [id |-> id,
     name |-> IF tag = "a" THEN "Ann" ELSE "Ben",
     username |-> IF tag = "a" THEN "ann" ELSE "ben"]

TimelineBodies ==
    { EmptyJson,
      Json({"data", "includes", "users"}, <<Tweet("t1", "u1")>>, <<User("u1", "a")>>),
      Json({"data"}, <<Tweet("t1", "u1")>>, <<>>) }

TimelineResponses ==
    {TransportError, Http(401, EmptyJson)} \cup {Http(OK, b) : b \in TimelineBodies}

\* The answers a request may get: one placeholder when the handler ends before
\* the request is sent (the answer is never read).
Answers(sent, responses) == IF sent THEN responses ELSE {TransportError}

\* self.actions[action_name]["func"](**kwargs)
Invoke(func, kwargs) ==
    LET ready == _get_oauth(oauth_session, environ).ok
        has_id == Truthy(environ["TWITTER_USER_ID"])
    IN
    CASE func = "get_latest_tweets" ->
            \E lresp \in Answers(ready, LookupResponses(kwargs.username)) :
            \E tresp \in Answers(get_user_id_from_username(kwargs.username, oauth_session,
                                        environ, lresp).result.outcome = "return",
                                  TweetsResponses) :
                get_latest_tweets(kwargs.username, kwargs.count, lresp, tresp)
      [] func = "post_tweet" ->
            \E resp \in Answers(ready /\ kwargs.message <= TWEET_LIMIT, PostResponses) :
                post_tweet(kwargs.message, resp)
      [] func = "read_timeline" ->
            \E resp \in Answers(ready /\ has_id, TimelineResponses) :
                read_timeline(kwargs.count, resp)
      [] func = "like_tweet" ->
            \E resp \in Answers(ready /\ has_id, PostResponses) :
                like_tweet(kwargs.tweet_id, resp)

\* perform_action(action_name, **kwargs)
perform_action(action_name, kwargs) ==
    /\ op' = [name |-> "perform_action", action_name |-> action_name, kwargs |-> kwargs]
    /\ IF action_name \in DOMAIN actions
       THEN Invoke(actions[action_name], kwargs)
       ELSE /\ result' = Raise("Exception", <<"Unknown action", action_name>>)
            /\ handler' = ""
            /\ calls' = <<>>
            /\ written' = <<>>
            /\ UNCHANGED <<oauth_session, environ, dotenv_exists, dotenv, nconfigure>>

-----------------------------------------------------------------------------
(* is_configured *)

RequiredKeys == SecretKeys \cup {"TWITTER_USER_ID"}

\* tweepy's client.get_me(): it raises on a transport error and on every
\* status that is not a success.
MeResponses == {TransportError, Http(401, EmptyJson), Http(OK, Json({"data"}, <<[id |-> "me"]>>, <<>>))}

get_me(resp) ==
    IF resp.raised \/ resp.status # OK
    THEN Raise("TweepyException", <<"validation failed">>)
    ELSE Return(resp.body)

\* A variant of the try block whose handler lets the exception through.
TryValidate_reraising(r) == IF r.outcome = "raise" THEN r ELSE Return(TRUE)

\* try: ... return True / except Exception: ... return False
TryValidate(r) == IF r.outcome = "raise" THEN Return(FALSE) ELSE Return(TRUE)

\* is_configured() called with os.environ = env, get_me answered by resp.
IsConfigured(env, resp) ==
    LET loaded == load_dotenv(env) IN
    IF ~dotenv_exists
    THEN Outcome(Return(FALSE), oauth_session, env, <<>>)
    ELSE IF ~AllTruthy(loaded, RequiredKeys)
    THEN Outcome(Return(FALSE), oauth_session, loaded, <<>>)
    ELSE Outcome(TryValidate(get_me(resp)), oauth_session, loaded,
                 <<Request("GET", "/2/users/me", "", "", 0, resp)>>)

\* The answers to the validation call is_configured() may get: one placeholder
\* when it returns before the call (the answer is never read).
ValidationResponses(env) ==
    IF dotenv_exists /\ AllTruthy(load_dotenv(env), RequiredKeys)
    THEN MeResponses
    ELSE {TransportError}

\* is_configured(verbose): verbose only decides whether the error is printed.
is_configured(verbose, resp) ==
    LET out == IsConfigured(environ, resp) IN
    /\ op' = [name |-> "is_configured"]
    /\ handler' = ""
    /\ result' = out.result
    /\ environ' = out.environ
    /\ calls' = out.calls
    /\ written' = <<>>
    /\ UNCHANGED <<oauth_session, dotenv_exists, dotenv, nconfigure>>

-----------------------------------------------------------------------------
(* configure *)


\* How oauth.fetch_request_token and oauth.fetch_access_token can end.
RequestTokenOutcomes == {"ok", "ValueError", "error"}
AccessTokenOutcomes(username) == {"error", TokenOf(username)}

\* The position of a key in the order configure() writes the keys.
IndexOf(k) == CHOOSE i \in 1..Len(KeyOrder) : KeyOrder[i] = k

\* .env after the first n of the six set_key calls, which write `values`.
set_keys(file, values, n) ==
    [k \in Keys |-> IF IndexOf(k) <= n THEN values[k] ELSE file[k]]

\* The values of the six set_key calls.
NewValues(username, user_id, consumer_key, consumer_secret, access_token, access_token_secret) ==
    [k \in Keys |->
        CASE k = "TWITTER_USERNAME" -> username
          [] k = "TWITTER_USER_ID" -> user_id
          [] k = "TWITTER_CONSUMER_KEY" -> consumer_key
          [] k = "TWITTER_CONSUMER_SECRET" -> consumer_secret
          [] k = "TWITTER_ACCESS_TOKEN" -> access_token
          [] k = "TWITTER_ACCESS_TOKEN_SECRET" -> access_token_secret]

\* A variant of the fallback that leaves the id empty.
UserIdOrFallback_empty(lookup, username) ==
    IF lookup.outcome = "raise" THEN "" ELSE lookup.value

\* try: user_id = self.get_user_id_from_username(username)
\* except Exception: user_id = username
UserIdOrFallback(lookup, username) ==
    IF lookup.outcome = "raise" THEN username ELSE lookup.value

\* configure() returns None on every path; how a run ended is what it printed
\* last: the success message, or the reason it gave up (`cause` is the call
\* whose exception the message of line 245 shows).
Ended(state, printed, cause) == Return([state |-> state, printed |-> printed, cause |-> cause])

\* configure() returns at one of its return statements without touching
\* self._oauth_session or .env.
ConfigureAbort(printed, cause, env, reqs) ==
    /\ result' = Ended("abort", printed, cause)
    /\ environ' = env
    /\ calls' = reqs
    /\ written' = <<>>
    /\ UNCHANGED <<oauth_session, dotenv_exists, dotenv>>

\* Lines 213-246: the new session replaces self._oauth_session, the id is
\* looked up with it, .env is created when absent and the six keys are
\* written one set_key call after the other.  nwrites is the number of
\* set_key calls that succeed: the next one raises, and the handler of line
\* 244 prints the error and returns.
ConfigurePersist(username, consumer_key, consumer_secret, access_token, lresp, nwrites, env, reqs) ==
    LET access_token_secret == SecretOf(access_token)
        session == OAuth1Session(oauth_session.id + 1, consumer_key, consumer_secret,
                                 access_token, access_token_secret)
        l == get_user_id_from_username(username, session, env, lresp)
        user_id == UserIdOrFallback(l.result, username)
        values == NewValues(username, user_id, consumer_key, consumer_secret,
                            access_token, access_token_secret)
    IN  /\ oauth_session' = l.session
        /\ environ' = l.environ
        /\ calls' = reqs \o l.calls
        /\ dotenv_exists' = TRUE
        /\ dotenv' = set_keys(dotenv, values, nwrites)
        /\ written' = SubSeq(KeyOrder, 1, nwrites)
        /\ result' = IF nwrites = Len(KeyOrder)
                     THEN Ended("success", "Twitter authentication successfully set up!", "")
                     ELSE Ended("abort", "An error occurred during setup", "set_key")

\* Lines 158-211: the prompts, the request token and the access token.
ConfigureSetup(env, reqs) ==
    \E username \in Usernames, rt \in RequestTokenOutcomes :
        IF rt = "ValueError"
        THEN ConfigureAbort("There may be an issue with your consumer key or secret.",
                            "fetch_request_token", env, reqs)
        ELSE IF rt = "error"
        THEN ConfigureAbort("An error occurred during setup", "fetch_request_token", env, reqs)
        ELSE \E at \in AccessTokenOutcomes(username) :
                IF at = "error"
                THEN ConfigureAbort("An error occurred during setup", "fetch_access_token",
                                    env, reqs)
                ELSE \E lresp \in LookupResponses(username), nwrites \in 0..Len(KeyOrder) :
                        ConfigurePersist(username, "ck", "cs", at, lresp, nwrites, env, reqs)

\* configure(): every line typed at the console and every answer of the
\* service is an input.
configure ==
    /\ nconfigure < MaxConfigures
    /\ nconfigure' = nconfigure + 1
    /\ op' = [name |-> "configure"]
    /\ handler' = ""
    /\ \E me \in ValidationResponses(environ) :
          LET ic == IsConfigured(environ, me) IN
          IF ic.result.value
          THEN \E response \in {"y", "n"} :
                  IF response # "y"
                  THEN ConfigureAbort("Twitter API is already configured.", "declined",
                                      ic.environ, ic.calls)
                  ELSE ConfigureSetup(ic.environ, ic.calls)
          ELSE ConfigureSetup(ic.environ, ic.calls)

-----------------------------------------------------------------------------
(* The adapter's behaviours *)

\* .env and os.environ when the process starts: a first run (no file, nothing
\* exported), a run after a complete setup (the file holds a credential
\* set), and a run with the six variables exported and no file.
InitStates ==
    { [exists |-> FALSE, file |-> Unset, env |-> Unset],
      [exists |-> TRUE, file |-> CredentialSet("alice", "1001", "at-A"), env |-> Unset],
      [exists |-> FALSE, file |-> Unset, env |-> CredentialSet("bob", "1002", "at-B")] }

\* The arguments the actions are called with: the default count, "hello" and
\* a text that is too long.
Counts == {10}
Messages == {5, TWEET_LIMIT + 1}
CalledNames == ActionNames \cup {"delete-tweet"}

KwargsOf(action_name, counts, messages) ==
    CASE action_name = "get-latest-tweets" -> [username : Usernames, count : counts]
      [] action_name = "post-tweet" -> [message : messages]
      [] action_name = "read-timeline" -> [count : counts]
      [] action_name = "like-tweet" -> [tweet_id : {"t1"}]
      [] OTHER -> [tweet_id : {"t1"}]

\* __init__: no session yet.
Start ==
    /\ oauth_session = NoSession
    /\ op = [name |-> "__init__"]
    /\ handler = ""
    /\ result = Return("None")
    /\ calls = <<>>
    /\ written = <<>>
    /\ nconfigure = 0

Init ==
    /\ Start
    /\ \E i \in InitStates :
          dotenv_exists = i.exists /\ dotenv = i.file /\ environ = i.env

PerformAction ==
    \E action_name \in CalledNames : \E kwargs \in KwargsOf(action_name, Counts, Messages) :
        perform_action(action_name, kwargs)

\* The same calls with counts and message lengths around the two limits.
CountsAroundLimit == {0, 1, API_LIMIT - 1} \cup (API_LIMIT .. API_LIMIT + MaxOver)
MessagesAroundLimit == {0, TWEET_LIMIT - 1} \cup (TWEET_LIMIT .. TWEET_LIMIT + MaxOver)

PerformActionAroundLimits ==
    \E action_name \in CalledNames :
    \E kwargs \in KwargsOf(action_name, CountsAroundLimit, MessagesAroundLimit) :
        perform_action(action_name, kwargs)

\* Timeline responses with every "data" list of at most MaxTweets tweets and
\* every user list of at most MaxUsers entries, absent or present.
SeqsUpTo(S, n) == UNION {[1..k -> S] : k \in 0..n}

TweetIdAt(i) == IF i = 1 THEN "t1" ELSE IF i = 2 THEN "t2" ELSE "t3"

AllTimelineBodies ==
    { Json(keys,
           [i \in DOMAIN authors |-> Tweet(TweetIdAt(i), authors[i])],
           users) :
        keys \in {{}, {"data"}, {"data", "includes"}, {"data", "includes", "users"}},
        authors \in SeqsUpTo({"u1", "u2", "u3"}, MaxTweets),
        users \in SeqsUpTo({User(id, tag) : id \in {"u1", "u2"}, tag \in {"a", "b"}}, MaxUsers) }

\* read_timeline called directly (the default count) at the start or after
\* is_configured, the timeline answered with any of these bodies.
ReadTimelineCall ==
    /\ op.name # "read_timeline"
    /\ \E resp \in {Http(OK, b) : b \in AllTimelineBodies} :
          /\ op' = [name |-> "read_timeline", count |-> 10]
          /\ read_timeline(10, resp)

IsConfiguredCall ==
    \E verbose \in BOOLEAN, resp \in ValidationResponses(environ) : is_configured(verbose, resp)

Next == PerformAction \/ IsConfiguredCall \/ configure

Spec == Init /\ [][Next]_vars

\* The actions called with arguments around their limits, without configure.
NextArgs == PerformActionAroundLimits \/ IsConfiguredCall

SpecArgs == Init /\ [][NextArgs]_vars

\* read_timeline alone, over every response body.
NextTimeline == ReadTimelineCall \/ IsConfiguredCall

SpecTimeline == Init /\ [][NextTimeline]_vars

-----------------------------------------------------------------------------
(* Properties *)

\* The last operation was perform_action(name, ...).
Called(name) == op.name = "perform_action" /\ op.action_name = name

\* An exception whose message ends with the missing-credentials message of
\* _get_oauth (raised by it, or wrapped by get_latest_tweets).
IsMissingCredentials(r) ==
    /\ r.outcome = "raise"
    /\ r.msg[Len(r.msg)] = "Missing required Twitter credentials in environment"

\* A handler ended at one of its own checks, before any request.
LocalFailure(r) ==
    \/ r = Raise("ValueError", <<"Tweet exceeds 280 character limit">>)
    \/ r = Raise("ValueError", <<"TWITTER_USER_ID not found in environment variables.">>)
    \/ IsMissingCredentials(r)

\* A response with a success status; a lookup response that names a user.
Success(resp, status) == ~resp.raised /\ resp.status = status
Found(resp) == Success(resp, 200) /\ "data" \in resp.body.keys /\ Len(resp.body.data) > 0

\* C1: every run of configure() ends either in success with all six keys
\* written to .env, or in abort with none of the six keys written by the run;
\* no run ends with only some of the keys written.
C1_ConfigureAllOrNothing ==
    op.name = "configure" =>
        \/ /\ result.value.state = "success"
           /\ written = KeyOrder
           /\ \A k \in Keys : dotenv[k] # None
        \/ /\ result.value.state = "abort"
           /\ written = <<>>

\* C2: post_tweet rejects a message longer than 280 with the validation error
\* before any request is issued and before a session is constructed (the
\* cached session and os.environ are left as they were), in every adapter
\* state; a message of at most 280 is never rejected by the length check.
C2_TooLongRejectedFirst ==
    [][ (op'.name = "perform_action" /\ op'.action_name = "post-tweet") =>
            IF op'.kwargs.message > 280
            THEN /\ result' = Raise("ValueError", <<"Tweet exceeds 280 character limit">>)
                 /\ calls' = <<>>
                 /\ oauth_session' = oauth_session
                 /\ environ' = environ
            ELSE result' # Raise("ValueError", <<"Tweet exceeds 280 character limit">>) ]_vars

\* A message that is too long was rejected while the credentials for a session
\* were at hand and no session had been built.
C2_Witness ==
    /\ Called("post-tweet")
    /\ op.kwargs.message > 280
    /\ result.outcome = "raise"
    /\ calls = <<>>
    /\ oauth_session = NoSession
    /\ AllTruthy(environ, SecretKeys)

\* C3: perform_action with a name that is not registered fails with the
\* unknown-action error, issues no request and leaves the cached session and
\* .env unchanged; with a registered name it invokes that action's handler.
C3_Dispatch ==
    [][ op'.name = "perform_action" =>
            CASE op'.action_name = "get-latest-tweets" -> handler' = "get_latest_tweets"
              [] op'.action_name = "post-tweet" -> handler' = "post_tweet"
              [] op'.action_name = "read-timeline" -> handler' = "read_timeline"
              [] op'.action_name = "like-tweet" -> handler' = "like_tweet"
              [] OTHER ->
                    /\ result' = Raise("Exception", <<"Unknown action", op'.action_name>>)
                    /\ handler' = ""
                    /\ calls' = <<>>
                    /\ oauth_session' = oauth_session
                    /\ dotenv' = dotenv
                    /\ dotenv_exists' = dotenv_exists ]_vars

\* An unregistered name was called while a session was cached.
C3_Witness ==
    /\ op.name = "perform_action"
    /\ op.action_name \notin {"get-latest-tweets", "post-tweet", "read-timeline", "like-tweet"}
    /\ result.outcome = "raise"
    /\ oauth_session # NoSession

\* C4: is_configured never raises; it returns False without the validation
\* call whenever one of the five required values is missing or empty; it
\* returns True only when all five are present and the validation call
\* succeeded; a failed validation call becomes the return value False.
C4_IsConfiguredIsABoolean ==
    op.name = "is_configured" =>
        /\ result.outcome = "return"
        /\ result.value \in BOOLEAN
        /\ (\E k \in {"TWITTER_CONSUMER_KEY", "TWITTER_CONSUMER_SECRET", "TWITTER_ACCESS_TOKEN",
                      "TWITTER_ACCESS_TOKEN_SECRET", "TWITTER_USER_ID"} :
                environ[k] \in {None, ""})
              => (result.value = FALSE /\ calls = <<>>)
        /\ result.value = TRUE =>
              /\ \A k \in {"TWITTER_CONSUMER_KEY", "TWITTER_CONSUMER_SECRET",
                           "TWITTER_ACCESS_TOKEN", "TWITTER_ACCESS_TOKEN_SECRET",
                           "TWITTER_USER_ID"} : environ[k] \notin {None, ""}
              /\ Len(calls) = 1
              /\ calls[1].endpoint = "/2/users/me"
              /\ Success(calls[1].resp, 200)
        /\ (calls # <<>> /\ ~Success(calls[1].resp, 200)) => result.value = FALSE

\* is_configured returned False without a request, .env present and exactly
\* one of the five required values missing.
C4_Witness ==
    /\ op.name = "is_configured"
    /\ result = Return(FALSE)
    /\ calls = <<>>
    /\ dotenv_exists
    /\ Cardinality({k \in RequiredKeys : ~Truthy(environ[k])}) = 1

\* The part of C5 about construction: a session is built by an action only from
\* four present secrets, and an attempt with a secret missing ends in the
\* configuration error with no session cached.
C5_Construction ==
    /\ (op'.name = "perform_action" /\ oauth_session = NoSession /\ oauth_session' # NoSession)
          => /\ AllTruthy(environ', SecretKeys)
             /\ oauth_session' = OAuth1Session(1, environ'["TWITTER_CONSUMER_KEY"],
                                               environ'["TWITTER_CONSUMER_SECRET"],
                                               environ'["TWITTER_ACCESS_TOKEN"],
                                               environ'["TWITTER_ACCESS_TOKEN_SECRET"])
    /\ (op'.name = "perform_action" /\ IsMissingCredentials(result'))
          => (oauth_session' = NoSession /\ ~AllTruthy(environ', SecretKeys))
    /\ (op'.name = "perform_action" /\ handler' # "" /\ oauth_session' = NoSession)
          => LocalFailure(result')

\* Every request of an action is sent with the cached session.
C5_RequestsUseCachedSession ==
    op'.name = "perform_action" =>
        \A i \in DOMAIN calls' :
            /\ calls'[i].sess = oauth_session'.id
            /\ oauth_session # NoSession => calls'[i].sess = oauth_session.id

\* C5 as stated: once a session has been constructed it is the object every
\* later call uses and it is never replaced or invalidated, whatever is called
\* afterwards (actions, failed requests, is_configured, configure); an attempt
\* to construct it with a secret missing fails and caches nothing.
C5_SessionNeverReplaced ==
    [][ /\ oauth_session # NoSession => oauth_session' = oauth_session
        /\ C5_RequestsUseCachedSession
        /\ C5_Construction ]_vars

\* C5 as the code has it: a cached session is never replaced or invalidated by
\* an action, a failed request or is_configured; only a run of configure() that
\* obtained an access token replaces it, with a new session carrying the new
\* token; an attempt to construct it with a secret missing fails and caches
\* nothing.
C5_SessionReplacedOnlyByConfigure ==
    [][ /\ oauth_session # NoSession =>
              \/ oauth_session' = oauth_session
              \/ /\ op'.name = "configure"
                 /\ oauth_session'.id = oauth_session.id + 1
                 /\ result'.value.cause \in {"", "set_key"}
        /\ (op'.name = "configure" /\ result'.value.cause \in {"", "set_key"})
              => /\ oauth_session'.id = oauth_session.id + 1
                 /\ result'.value.state = "success"
                       => oauth_session'.resource_owner_key = dotenv'["TWITTER_ACCESS_TOKEN"]
        /\ (op'.name = "configure" /\ result'.value.cause \notin {"", "set_key"})
              => oauth_session' = oauth_session
        /\ C5_RequestsUseCachedSession
        /\ C5_Construction ]_vars

\* The session configure() cached was used by a later action whose request was
\* refused, and it is still the cached one.
C5_Witness ==
    /\ op.name = "perform_action"
    /\ oauth_session.id = 2
    /\ calls # <<>>
    /\ calls[1].sess = 2
    /\ calls[1].resp.status = 401
    /\ result.outcome = "raise"

\* What C6 says of every action: no request is sent after a response that is
\* not a success, a last response that is not a success is raised, and
\* post_tweet returns the parsed body exactly on status 201.
C6_NoRetry ==
    /\ \A i \in 1..(Len(calls) - 1) : Success(calls[i].resp, 200)
    /\ (calls # <<>> /\ calls[Len(calls)].resp.raised) => result.outcome = "raise"
    /\ (calls # <<>> /\ ~Success(calls[Len(calls)].resp,
                                 IF handler = "post_tweet" THEN 201 ELSE 200))
          => result.outcome = "raise"
    /\ handler = "post_tweet" =>
          /\ calls[1].method = "POST"
          /\ result.outcome = "return" <=> Success(calls[1].resp, 201)
          /\ result.outcome = "return" => result.value = calls[1].resp.body

\* C6 as stated: each of the four actions issues exactly one request per
\* invocation that passes its local validation, with no retry.
C6_OneRequestPerAction ==
    (op.name = "perform_action" /\ handler # "" /\ ~LocalFailure(result)) =>
        /\ Len(calls) = 1
        /\ C6_NoRetry

\* C6 as the code has it: post_tweet, read_timeline and like_tweet issue
\* exactly one request per invocation that passes the local validation;
\* get_latest_tweets issues the lookup and, only when the lookup named a user,
\* the user-tweets request; no request follows a response that is not a success.
C6_RequestsPerAction ==
    (op.name = "perform_action" /\ handler # "" /\ ~LocalFailure(result)) =>
        /\ handler \in {"post_tweet", "read_timeline", "like_tweet"} => Len(calls) = 1
        /\ handler = "get_latest_tweets" =>
              /\ Len(calls) \in {1, 2}
              /\ calls[1].endpoint = "/2/users/by"
              /\ Len(calls) = 2 <=> Found(calls[1].resp)
              /\ Len(calls) = 2 => calls[2].endpoint = "/2/users/:id/tweets"
        /\ C6_NoRetry

\* get_latest_tweets sent the lookup and the user-tweets request, the second
\* was refused, and nothing was sent after it.
C6_Witness ==
    /\ Called("get-latest-tweets")
    /\ Len(calls) = 2
    /\ calls[2].resp.status = 401
    /\ result.outcome = "raise"

\* The last operation was a run of configure() that got to the id lookup.
LookupReached ==
    /\ op.name = "configure"
    /\ calls # <<>>
    /\ calls[Len(calls)].endpoint = "/2/users/by"

\* The user id that run should persist: the id the lookup returned, or the
\* user name typed (the argument of the lookup) when the lookup failed.
ExpectedUserId ==
    LET lookup == calls[Len(calls)] IN
    IF Found(lookup.resp) THEN lookup.resp.body.data[1].id ELSE lookup.arg

\* C7 as stated: once the request token and the access token were obtained,
\* the run reaches success whether or not the lookup fails, and the persisted
\* TWITTER_USER_ID is the lookup's id, or the raw user name when it failed.
C7_LookupFailureStillSucceeds ==
    LookupReached =>
        /\ result.value.state = "success"
        /\ dotenv["TWITTER_USER_ID"] = ExpectedUserId

\* C7 as the code has it: a failed lookup never aborts the run, which goes on
\* to write the keys with the raw user name as the id; the run reaches success
\* exactly when all six writes go through (the only abort left is a failing
\* write), and TWITTER_USER_ID, once written, is the lookup's id or the raw
\* user name.
C7_LookupFailureNeverAborts ==
    LookupReached =>
        /\ result.value.state = "success" \/ result.value.cause = "set_key"
        /\ result.value.state = "success" <=> written = KeyOrder
        /\ Len(written) >= 2 => dotenv["TWITTER_USER_ID"] = ExpectedUserId

\* A run whose lookup failed ended in success with the user name as the id.
C7_Witness ==
    /\ LookupReached
    /\ ~Found(calls[Len(calls)].resp)
    /\ result.value.state = "success"
    /\ dotenv["TWITTER_USER_ID"] = calls[Len(calls)].arg

\* C8: the max_results get_latest_tweets sends is min(count, 100), never more
\* than 100; when the lookup fails the user-tweets request is not sent and the
\* error names the user name.
C8_CountCapped ==
    Called("get-latest-tweets") =>
        /\ \A i \in DOMAIN calls :
              calls[i].endpoint = "/2/users/:id/tweets" =>
                  /\ calls[i].arg <= 100
                  /\ op.kwargs.count <= 100 => calls[i].arg = op.kwargs.count
                  /\ op.kwargs.count > 100 => calls[i].arg = 100
        /\ (calls = <<>> \/ ~Found(calls[1].resp)) =>
              /\ \A i \in DOMAIN calls : calls[i].endpoint # "/2/users/:id/tweets"
              /\ result.outcome = "raise"
              /\ SubSeq(result.msg, 1, 2)
                    = <<"Failed to get user ID for username", op.kwargs.username>>
        /\ (calls # <<>> /\ Found(calls[1].resp)) =>
              /\ Len(calls) = 2
              /\ calls[2].endpoint = "/2/users/:id/tweets"

\* A count above 100 was sent as 100.
C8_Witness ==
    /\ Called("get-latest-tweets")
    /\ op.kwargs.count > 100
    /\ Len(calls) = 2
    /\ calls[2].arg = 100

\* C9: on a 200 response read_timeline returns the response's tweets, as many
\* and in the same order, each with author_name and author_username: those of
\* an entry of the referenced-user list with the tweet's author_id when there
\* is one, and "Unknown" for both when there is none (also when the list is
\* absent or empty).
C9_AuthorsJoined ==
    (op.name = "read_timeline" /\ calls # <<>> /\ Success(calls[1].resp, 200)) =>
        LET body == calls[1].resp.body
            data == IF "data" \in body.keys THEN body.data ELSE <<>>
            users == IF "includes" \in body.keys /\ "users" \in body.keys
                     THEN body.users ELSE <<>>
            out == result.value
        IN  /\ result.outcome = "return"
            /\ Len(out) = Len(data)
            /\ \A t \in DOMAIN data :
                  /\ out[t].id = data[t].id
                  /\ out[t].author_id = data[t].author_id
                  /\ IF \E j \in DOMAIN users : users[j].id = data[t].author_id
                     THEN \E j \in DOMAIN users :
                              /\ users[j].id = data[t].author_id
                              /\ out[t].author_name = users[j].name
                              /\ out[t].author_username = users[j].username
                     ELSE /\ out[t].author_name = "Unknown"
                          /\ out[t].author_username = "Unknown"

\* A returned timeline with one tweet whose author was found and one whose
\* author was not.
C9_Witness ==
    /\ op.name = "read_timeline"
    /\ result.outcome = "return"
    /\ \E t1, t2 \in DOMAIN result.value :
          /\ result.value[t1].author_name = "Unknown"
          /\ result.value[t2].author_name \in {"Ann", "Ben"}
          /\ result.value[t2].author_username \in {"ann", "ben"}

\* C10: the first read_timeline or like_tweet after a run of configure() that
\* ended in success sends its request with the credential set just persisted
\* as a whole: the user id in the request's path is the TWITTER_USER_ID in
\* .env, and the session it is sent with is the cached one, which carries the
\* access token in .env.
C10_CredentialsUsedAsAWhole ==
    [][ ( /\ op.name = "configure"
          /\ result.value.state = "success"
          /\ op'.name = "perform_action"
          /\ handler' \in {"read_timeline", "like_tweet"}
          /\ calls' # <<>> )
        => /\ calls'[1].id = dotenv["TWITTER_USER_ID"]
           /\ calls'[1].sess = oauth_session.id
           /\ oauth_session.resource_owner_key = dotenv["TWITTER_ACCESS_TOKEN"] ]_vars

====
